---------------------------- MODULE Spec2Model ----------------------------
(***************************************************************************)
(* A model of src/main_rag_app.py: the registry of per-gpt EnhancedRAG     *)
(* instances (active_rag_sessions, guarded by sessions_lock), the          *)
(* endpoints that resolve an instance, the background URL / upload         *)
(* ingestion tasks, the /chat-stream generator and the development reset.  *)
(*                                                                         *)
(* Scheduling is asyncio's: a coroutine runs without interruption up to    *)
(* its next await that really suspends, so one action of the model is one  *)
(* such run.  Python values are modelled as strings: None is "None", the   *)
(* booleans are "True" and "False"; a keyword argument or request field    *)
(* that the caller leaves out is "Omitted" until its declared default is   *)
(* applied.  CancelledError and GeneratorExit are BaseExceptions, not      *)
(* Exceptions (Python 3.8 and later).                                      *)
(***************************************************************************)
EXTENDS Integers, Sequences, FiniteSets, TLC

\* ------------------------------------------------------------------ bounds
\* Coroutines (requests and their background tasks) alive at the same time.
NTasks == 2
\* EnhancedRAG objects constructed during one run.
MaxHandles == 2

\* URLs of one /setup-gpt-context or /gpt-opened request.
MaxUrls == 2
\* Files of one upload request.
MaxFiles == 2
\* Fragments the engine yields before the one that signals completion.
MaxFrags == 2

Tasks == 1..NTasks
Gpts == {"g1", "g2"}

\* ------------------------------------------------------------ Python values
None == "None"
Omitted == "Omitted"
PyTrue == "True"
PyFalse == "False"

\* bool(v) for the values the model uses
Truthy(v) == v \notin {None, PyFalse, ""}

\* The value a parameter or a pydantic field takes: the declared default when
\* the caller leaves it out, the caller's value (an explicit null included)
\* otherwise.
WithDefault(v, d) == IF v = Omitted THEN d ELSE v

Models == {"m1"}
Prompts == {"p1"}
\* os.getenv("DEFAULT_OPENAI_MODEL", "gpt-4o")
DefaultModel == "gpt-4o"

\* What a request may carry for the three defaults.
GivenSet ==
    [model : Models \cup {Omitted}, prompt : Prompts \cup {Omitted},
     hybrid : {Omitted, None, PyTrue, PyFalse}]
NoOverrides == [model |-> Omitted, prompt |-> Omitted, hybrid |-> Omitted]
\* A request that overrides the model alone.
ModelOnly == [model |-> "m1", prompt |-> Omitted, hybrid |-> Omitted]

VARIABLES
    env,        \* the process environment: which settings are present
    sessions,   \* active_rag_sessions: gpt_id -> handle (0: no entry)
    lock,       \* sessions_lock: 0 when free, else the task holding it
    waiters,    \* sessions_lock's FIFO of tasks blocked in acquire()
    rags,       \* every EnhancedRAG object constructed so far, by handle
    task,       \* each coroutine's position and locals
    returned,   \* per gpt_id, the handles get_or_create_rag_instance has
                \* returned since the entry was last popped (observation only)
    last        \* the outcome of the step just taken (observation only)

vars == <<env, sessions, lock, waiters, rags, task, returned, last>>

Idle == [pc |-> "idle"]


\* -------------------------------------------------------------- the registry
\* get_session_id is a pure string function of (user_email, gpt_id); the model
\* keeps one user per request, so the session id of a request is its gpt_id's.

\* (mutation of InRegistry: the membership test is missing, every call
\* constructs)
InRegistryNever(S, g) == FALSE

\* `gpt_id in active_rag_sessions`
InRegistry(S, g) == S[g] # 0

\* (mutation of StoreSession: the new object is returned but not stored)
StoreNothing(S, g, h) == S

\* `active_rag_sessions[gpt_id] = EnhancedRAG(...)`: the entry is stored.
StoreSession(S, g, h) == [S EXCEPT ![g] = h]

\* EnhancedRAG(...) as get_or_create_rag_instance calls it: the new object's
\* attributes.  `cleared` counts the clear_all_context() calls the object has
\* received and `removed` records that a reset has popped it; both are
\* observations, not attributes the code reads.
NewRag(g, dm, dp, dh) ==
    [gpt_id |-> g,
     model |-> IF Truthy(dm) THEN dm ELSE DefaultModel,
     prompt |-> dp,
     hybrid |-> dh,
     cleared |-> 0,
     removed |-> FALSE]

\* The else branch of get_or_create_rag_instance: the defaults of an existing
\* instance after the call.
MergeDefaults(r, dm, dp, dh) ==
    [r EXCEPT !.model = IF Truthy(dm) THEN dm ELSE @,
              !.prompt = IF Truthy(dp) THEN dp ELSE @,
              !.hybrid = IF dh # None THEN dh ELSE @]

\* (mutation of ConfigError: QDRANT_URL is not checked)
ConfigErrorKeyOnly(e) == IF ~e.openai THEN "OPENAI_API_KEY not set" ELSE ""

\* The ValueError the construction branch raises for environment e before it
\* constructs anything ("": none): OPENAI_API_KEY is looked at first, then
\* QDRANT_URL.
ConfigError(e) ==
    IF ~e.openai THEN "OPENAI_API_KEY not set"
    ELSE IF ~e.qdrant THEN "QDRANT_URL not set"
    ELSE ""

\* get_or_create_rag_instance(user_email, gpt_id, gpt_name, default_model,
\* default_system_prompt, default_use_hybrid_search) run on registry S and
\* objects R; a keyword the call site leaves out arrives as Omitted and takes
\* the default of the signature.  The result: what was raised ("" if nothing),
\* the registry and objects afterwards, and the handle returned.
GetOrCreate(S, R, g, p_model, p_prompt, p_hybrid) ==
    LET dm == WithDefault(p_model, None)
        dp == WithDefault(p_prompt, None)
        dh == WithDefault(p_hybrid, PyFalse)
        h == Len(R) + 1
    IN  IF ~InRegistry(S, g)
        THEN IF ConfigError(env) # ""
             THEN [raised |-> ConfigError(env), sessions |-> S,
                   rags |-> R, ret |-> 0, created |-> FALSE]
             ELSE [raised |-> "",
                   sessions |-> StoreSession(S, g, h),
                   rags |-> Append(R, NewRag(g, dm, dp, dh)),
                   ret |-> h, created |-> TRUE]
        ELSE [raised |-> "", sessions |-> S,
              rags |-> [R EXCEPT ![S[g]] = MergeDefaults(@, dm, dp, dh)],
              ret |-> S[g], created |-> FALSE]

\* The construction of one more object stays within the model's bound.
CanResolve(g) == InRegistry(sessions, g) \/ Len(rags) < MaxHandles

\* asyncio.Lock.acquire() returns at once, without suspending, exactly when
\* the lock is free and nobody is queued before the caller.
LockFree == lock = 0 /\ waiters = <<>>

\* ------------------------------------------------------------- the requests
\* The endpoints that call get_or_create_rag_instance.
ResolveKinds ==
    {"setup", "upload_documents", "chat_stream", "chat", "gpt_opened",
     "upload_chat_files"}
UploadKinds == {"upload_documents", "upload_chat_files"}
UrlKinds == {"setup", "gpt_opened"}

\* The three keyword arguments an endpoint passes to
\* get_or_create_rag_instance.  The upload endpoints pass none of them; the
\* others pass the request's fields, which pydantic has given their declared
\* defaults (None, None, False) when the request left them out.  /gpt-opened
\* reads them from the schema payload with the same defaults.
CallArgs(kind, given) ==
    IF kind \in UploadKinds
    THEN NoOverrides
    ELSE [model |-> WithDefault(given.model, None),
          prompt |-> WithDefault(given.prompt, None),
          hybrid |-> WithDefault(given.hybrid, PyFalse)]

\* url.startswith('http://') or url.startswith('https://'); a URL is modelled
\* by the prefix it starts with.
UrlPrefixes == {"http://", "https://", "ftp://"}
HasHttpScheme(url) == url = "http://" \/ url = "https://"

\* What one storage call (upload_file, download_file_from_url) can do: return
\* (True, path), return (False, error), or raise.
StoreOutcomes == {"ok", "fail", "raise"}
\* What one awaited engine call can do.
EngineOutcomes == {"ok", "raise"}

\* get_session_id(user_email, gpt_id), for the one user of a request
SessionId(g) == <<"user", g>>

\* The engine call an index task makes for its scope.
IndexCall(user_doc, g, locs) ==
    IF user_doc
    THEN [op |-> "update_user_documents", session |-> SessionId(g), locs |-> locs]
    ELSE [op |-> "update_knowledge_base", session |-> None, locs |-> locs]

\* A request as it reaches `async with sessions_lock`: items are its URLs or
\* files, agg the stored locations collected before the lock (uploads) and
\* outs the per-item outcomes so far.
Rq(kind, g, given, items, user_doc, agg, outs) ==
    [kind |-> kind, gpt |-> g, given |-> given, items |-> items,
     user_doc |-> user_doc, agg |-> agg, outs |-> outs]

\* The ingestion state a task carries: i is the item whose storage call is
\* pending (0: none yet), fails counts the item failures the code has written
\* down (a print, or a failure entry of upload_results), calls lists the
\* engine's index-update calls made for the job.
\* acked tells whether the request that started the job has been answered.
Job(pc, rq, rag, i, agg, outs, fails, calls) ==
    [pc |-> pc, kind |-> rq.kind, gpt |-> rq.gpt, rag |-> rag,
     items |-> rq.items, user_doc |-> rq.user_doc, i |-> i, agg |-> agg,
     outs |-> outs, fails |-> fails, calls |-> calls, acked |-> FALSE]

\* How many of the outcomes are failures.
RECURSIVE CountFails(_)
CountFails(outs) ==
    IF outs = <<>> THEN 0
    ELSE (IF Head(outs) = "ok" THEN 0 ELSE 1) + CountFails(Tail(outs))

\* ---------------------------------------------------------------- responses
\* (mutation of Detached: no endpoint hands its job to background_tasks)
DetachedNever(kind) == FALSE

\* Whether an endpoint hands its ingestion job to background_tasks.add_task,
\* which runs it once the response has been sent, or awaits the index update
\* in the handler itself, as /upload-chat-files does.
Detached(kind) == kind # "upload_chat_files"

\* The JSON body of the response an endpoint sends with a status code: its
\* keys, the success flag with its value; ok tells the handler's normal
\* answer from the one of its except block.  {} is no JSON body (no response
\* in this step, or the event stream).
Body(kind, code, ok) ==
    CASE code = 0 -> {}
      [] code # 0 /\ kind = "setup" -> {"message", "gpt_id"}
      [] code # 0 /\ kind = "upload_documents" -> {"message", "upload_results"}
      [] code # 0 /\ kind = "chat_stream" ->
           IF ok THEN {} ELSE {"success=False", "error"}
      [] code # 0 /\ kind = "chat" ->
           IF ok THEN {"success=True", "data"} ELSE {"success=False", "error"}
      [] code # 0 /\ kind = "gpt_opened" ->
           IF ok THEN {"success=True", "collection_name"}
                 ELSE {"success=False", "error"}
      [] code # 0 /\ kind = "upload_chat_files" ->
           {IF ok THEN "success=True" ELSE "success=False",
            "message", "file_urls", "processing"}
      [] code # 0 /\ kind = "reset" ->
           IF code = 403 THEN {"error"} ELSE {"status", "message"}
      [] OTHER -> {}

\* ------------------------------------------------------------- observations
\* What the step just taken did: the operation, the endpoint, the request's
\* tenant and overrides, for a resolve whether it constructed and what it
\* returned (0: nothing) or raised, the response sent in this step (code 0:
\* none; unhandled: the exception left the handler), and in `end` the summary
\* of the ingestion job that ended in this step, if one did.
Ev(op, kind, g, given, created, ret, raised, code, end) ==
    [op |-> op, kind |-> kind, gpt |-> g, given |-> given,
     created |-> created, ret |-> ret, raised |-> raised, code |-> code,
     unhandled |-> FALSE, end |-> end, stream |-> <<>>,
     body |-> Body(kind, code, raised = "")]
Step(op, kind, g, code, end) ==
    Ev(op, kind, g, NoOverrides, FALSE, 0, "", code, end)

\* The summary of a job that ends: report is what the job tells anybody about
\* its outcome as a whole ("hard_failure", "success", or "none": nothing).
JobEnd(job, report) ==
    <<[kind |-> job.kind, gpt |-> job.gpt, rag |-> job.rag,
       items |-> job.items, user_doc |-> job.user_doc, outs |-> job.outs,
       agg |-> job.agg, fails |-> job.fails, calls |-> job.calls,
       report |-> report]>>

\* The three defaults of an EnhancedRAG object.
Defaults(r) == [model |-> r.model, prompt |-> r.prompt, hybrid |-> r.hybrid]

\* --------------------------------------------- the handlers after the lock
\* The rest of a handler once get_or_create_rag_instance has returned res (or
\* raised): the task's next position, the response sent now (code 0: none
\* yet) and the job summary if the job ends here.
\*  - /setup-gpt-context and /gpt-opened add _process_kb_urls_task when URLs
\*    were given and answer; an exception leaves /setup-gpt-context unhandled
\*    and is turned into {"success": False} by /gpt-opened.
\*  - /upload-documents adds _index_documents_task and answers 202.
\*  - /upload-chat-files awaits the index update itself when a file was stored
\*    and otherwise answers success.
\*  - /chat awaits rag.query; /chat-stream returns the StreamingResponse.
Continue(rq, res) ==
    LET k == rq.kind
        job0 == [Job("none", rq, res.ret, 0, rq.agg, rq.outs,
                     CountFails(rq.outs), <<>>)
                 EXCEPT !.acked = Detached(k)]
    IN  IF res.raised # ""
        THEN [task |-> Idle,
              code |-> IF k = "gpt_opened" THEN 200 ELSE 500,
              unhandled |-> k \notin {"gpt_opened", "chat_stream"},
              end |-> <<>>]
        ELSE CASE k \in UrlKinds ->
                 [task |-> IF rq.items # <<>>
                           THEN [job0 EXCEPT !.pc = "bg_urls"] ELSE Idle,
                  code |-> IF k = "setup" /\ rq.items # <<>> THEN 202 ELSE 200,
                  unhandled |-> FALSE, end |-> <<>>]
               [] k = "upload_documents" ->
                 [task |-> [job0 EXCEPT !.pc = "bg_index"],
                  code |-> 202, unhandled |-> FALSE, end |-> <<>>]
               [] k = "upload_chat_files" ->
                 IF rq.agg # <<>>
                 THEN [task |-> [job0 EXCEPT !.pc = "indexing",
                                   !.calls = <<IndexCall(rq.user_doc, rq.gpt, rq.agg)>>],
                       code |-> 0, unhandled |-> FALSE, end |-> <<>>]
                 ELSE [task |-> Idle, code |-> 200, unhandled |-> FALSE,
                       end |-> JobEnd(job0, "success")]
               [] k = "chat" ->
                 [task |-> [pc |-> "query", kind |-> k, gpt |-> rq.gpt,
                            rag |-> res.ret],
                  code |-> 0, unhandled |-> FALSE, end |-> <<>>]
               [] k = "chat_stream" ->
                 [task |-> [pc |-> "stream_start", kind |-> k, gpt |-> rq.gpt,
                            rag |-> res.ret, frames |-> <<>>, asked |-> 0,
                            chunks |-> <<>>,
                            resolved |-> Defaults(res.rags[res.ret]),
                            used |-> Defaults(res.rags[res.ret])],
                  code |-> 200, unhandled |-> FALSE, end |-> <<>>]

\* A handler from `async with sessions_lock` on, the lock being free for task
\* t: get_or_create_rag_instance runs to its return without suspending (its
\* body awaits nothing), the lock is released, and the handler runs on to its
\* next suspension.
RunHandler(t, rq) ==
    LET a == CallArgs(rq.kind, rq.given)
        res == GetOrCreate(sessions, rags, rq.gpt, a.model, a.prompt, a.hybrid)
        c == Continue(rq, res)
    IN  /\ CanResolve(rq.gpt)
        /\ sessions' = res.sessions
        /\ rags' = res.rags
        /\ lock' = 0
        /\ returned' = IF res.ret # 0
                       THEN [returned EXCEPT ![rq.gpt] = @ \cup {res.ret}]
                       ELSE returned
        /\ task' = [task EXCEPT ![t] = c.task]
        /\ last' = [Ev("resolve", rq.kind, rq.gpt, rq.given, res.created,
                       res.ret, res.raised, c.code, c.end)
                    EXCEPT !.unhandled = c.unhandled,
                           !.body = IF c.unhandled THEN {} ELSE @]
        /\ UNCHANGED env

\* ------------------------------------------------------------------ reset
\* (mutation of ResetFound: `if active_rag_sessions`, any entry will do)
ResetFoundAny(S, g) == \E x \in DOMAIN S : S[x] # 0

\* `if gpt_id in active_rag_sessions` of the reset endpoint
ResetFound(S, g) == S[g] # 0

\* (mutation of PopSession: the registry is emptied)
PopEverything(S, g) == [x \in DOMAIN S |-> 0]

\* (mutation of PopSession: the entry is read, not removed)
PopKeeps(S, g) == S

\* active_rag_sessions.pop(gpt_id)
PopSession(S, g) == [S EXCEPT ![g] = 0]

\* /dev/reset-gpt-context from `async with sessions_lock` on, the lock being
\* free for task t.  A present entry is popped and clear_all_context() is
\* called and awaited with the lock held; pop() of a missing key would raise
\* KeyError into the handler's except (500); an absent key answers 404.
ResetBody(t, g) ==
    IF ResetFound(sessions, g)
    THEN IF sessions[g] = 0
         THEN /\ lock' = 0
              /\ task' = [task EXCEPT ![t] = Idle]
              /\ last' = Step("reset_end", "reset", g, 500, <<>>)
              /\ UNCHANGED <<env, sessions, rags, returned>>
         ELSE LET h == sessions[g]
              IN  /\ sessions' = PopSession(sessions, g)
                  /\ rags' = [rags EXCEPT ![h].removed = TRUE,
                                           ![h].cleared = @ + 1]
                  /\ returned' = [returned EXCEPT ![g] = {}]
                  /\ lock' = t
                  /\ task' = [task EXCEPT ![t] =
                                 [pc |-> "teardown", kind |-> "reset",
                                  gpt |-> g, rag |-> h]]
                  /\ last' = [Step("reset_pop", "reset", g, 0, <<>>)
                              EXCEPT !.ret = h]
                  /\ UNCHANGED env
    ELSE /\ lock' = 0
         /\ task' = [task EXCEPT ![t] = Idle]
         /\ last' = Step("reset_end", "reset", g, 404, <<>>)
         /\ UNCHANGED <<env, sessions, rags, returned>>

\* A handler reaching `async with sessions_lock`: it goes on at once when the
\* lock is free, and otherwise queues behind the lock's waiters.
AtLock(t, rq) ==
    IF LockFree
    THEN /\ (IF rq.kind = "reset" THEN ResetBody(t, rq.gpt)
                                  ELSE RunHandler(t, rq))
         /\ UNCHANGED waiters
    ELSE /\ task' = [task EXCEPT ![t] = [pc |-> "lock", rq |-> rq]]
         /\ waiters' = Append(waiters, t)
         /\ last' = Step("blocked", rq.kind, rq.gpt, 0, <<>>)
         /\ UNCHANGED <<env, sessions, lock, rags, returned>>

\* sessions_lock is released and wakes its first waiter, which goes on.
acquire(t) ==
    /\ task[t].pc = "lock"
    /\ lock = 0
    /\ waiters # <<>> /\ Head(waiters) = t
    /\ waiters' = Tail(waiters)
    /\ (IF task[t].rq.kind = "reset" THEN ResetBody(t, task[t].rq.gpt)
                                     ELSE RunHandler(t, task[t].rq))

\* (mutation of Release: the lock is released by hand after the last
\* statement of the block, which an exception skips)
ReleaseOnReturnOnly(holder, out) == IF out = "ok" THEN 0 ELSE holder

\* Leaving `async with sessions_lock`: the lock is released however the
\* block is left, by its return or by an exception.
Release(holder, out) == 0

\* The awaited clear_all_context() of a reset returns or raises; after a
\* return the local index directory is removed, which can raise too.  Either
\* way the handler answers (200, or 500 from its except) and leaves the
\* `async with`, releasing the lock.
reset_teardown(t) ==
    /\ task[t].pc = "teardown"
    /\ \E out \in {"ok", "clear_raises", "rmtree_raises"} :
          /\ last' = Step("reset_end", "reset", task[t].gpt,
                          IF out = "ok" THEN 200 ELSE 500, <<>>)
          /\ lock' = Release(t, out)
    /\ task' = [task EXCEPT ![t] = Idle]
    /\ UNCHANGED <<env, sessions, waiters, rags, returned>>

\* POST /dev/reset-gpt-context: 403 unless ENVIRONMENT_TYPE is development.
dev_reset_gpt_context_endpoint(t, in) ==
    /\ task[t].pc = "idle"
    /\ \E g \in in.gpts :
          IF ~env.dev
          THEN /\ last' = Step("reset_end", "reset", g, 403, <<>>)
               /\ UNCHANGED <<env, sessions, lock, waiters, rags, task, returned>>
          ELSE AtLock(t, Rq("reset", g, NoOverrides, <<>>, FALSE, <<>>, <<>>))

\* ---------------------------------------------------------------- ingestion
UrlLists == UNION {[1..n -> UrlPrefixes] : n \in 0..MaxUrls}
FileLists == {[i \in 1..n |-> "file"] : n \in 1..MaxFiles}

\* Whether the URL task of an endpoint writes a skipped or failed URL down:
\* /setup-gpt-context's task prints each one, /gpt-opened's task drops them.
LogsItemFailure(kind) == kind = "setup"

\* The URL loop from item st.i on, up to the first URL it will download: URLs
\* without an http(s) prefix are skipped (`continue`).
RECURSIVE SkipInvalid(_, _)
SkipInvalid(job, st) ==
    IF st.i > Len(job.items) \/ HasHttpScheme(job.items[st.i])
    THEN st
    ELSE SkipInvalid(job,
             [i |-> st.i + 1,
              outs |-> Append(st.outs, "skipped"),
              fails |-> st.fails + (IF LogsItemFailure(job.kind) THEN 1 ELSE 0)])

\* _process_kb_urls_task (both copies), one run between two suspensions: the
\* pending download_file_from_url of item i returns or raises (nothing in the
\* task catches it), the loop goes on to the next download, and after the
\* last item update_knowledge_base_from_r2 is called when a location was
\* collected.
process_kb_urls_task(t) ==
    LET job == task[t] IN
    /\ job.pc = "bg_urls"
    /\ \E out \in StoreOutcomes :
        /\ job.i = 0 => out = "ok"
        /\ LET j1 == IF job.i = 0 THEN job
                     ELSE [job EXCEPT
                             !.outs = Append(@, out),
                             !.agg = IF out = "ok" THEN Append(@, job.i) ELSE @,
                             !.fails = IF out = "fail" /\ LogsItemFailure(job.kind)
                                       THEN @ + 1 ELSE @]
               st == SkipInvalid(j1, [i |-> job.i + 1, outs |-> j1.outs,
                                      fails |-> j1.fails])
               j2 == [j1 EXCEPT !.i = st.i, !.outs = st.outs, !.fails = st.fails]
           IN  IF job.i > 0 /\ out = "raise"
               THEN /\ task' = [task EXCEPT ![t] = Idle]
                    /\ last' = Step("job_aborted", job.kind, job.gpt, 0,
                                    JobEnd(j1, "none"))
               ELSE IF st.i <= Len(job.items)
               THEN /\ task' = [task EXCEPT ![t] = j2]
                    /\ last' = Step("urls", job.kind, job.gpt, 0, <<>>)
               ELSE IF j2.agg # <<>>
               THEN /\ task' = [task EXCEPT ![t] =
                                  [j2 EXCEPT !.pc = "indexing",
                                             !.calls = <<IndexCall(FALSE, job.gpt, j2.agg)>>]]
                    /\ last' = Step("index_call", job.kind, job.gpt, 0, <<>>)
               ELSE /\ task' = [task EXCEPT ![t] = Idle]
                    /\ last' = Step("job_end", job.kind, job.gpt, 0,
                                    JobEnd(j2, "none"))
    /\ UNCHANGED <<env, sessions, lock, waiters, rags, returned>>

\* The upload loop of /upload-documents and /upload-chat-files, one run
\* between two suspensions: _process_uploaded_file_to_r2 of file i returns
\* (a raised exception is caught and becomes a failure result), the result
\* is appended, and after the last file the handler goes on: 400 when
\* /upload-documents stored nothing, else to get_or_create_rag_instance.
process_uploaded_file_to_r2(t) ==
    LET job == task[t] IN
    /\ job.pc = "uploading"
    /\ \E out \in StoreOutcomes :
        LET j1 == [job EXCEPT
                     !.outs = Append(@, out),
                     !.agg = IF out = "ok" THEN Append(@, job.i) ELSE @,
                     !.fails = IF out = "ok" THEN @ ELSE @ + 1]
        IN  IF job.i < Len(job.items)
            THEN /\ task' = [task EXCEPT ![t] = [j1 EXCEPT !.i = job.i + 1]]
                 /\ last' = Step("upload", job.kind, job.gpt, 0, <<>>)
                 /\ UNCHANGED <<env, sessions, lock, waiters, rags, returned>>
            ELSE IF job.kind = "upload_documents" /\ j1.agg = <<>>
            THEN /\ task' = [task EXCEPT ![t] = Idle]
                 /\ last' = Step("upload", job.kind, job.gpt, 400,
                                 JobEnd(j1, "hard_failure"))
                 /\ UNCHANGED <<env, sessions, lock, waiters, rags, returned>>
            ELSE AtLock(t, Rq(job.kind, job.gpt, NoOverrides, job.items,
                              job.user_doc, j1.agg, j1.outs))

\* _index_documents_task starts (after /upload-documents has answered) and
\* awaits the index update of its scope.
index_documents_task(t) ==
    LET job == task[t] IN
    /\ job.pc = "bg_index"
    /\ task' = [task EXCEPT ![t] =
                  [job EXCEPT !.pc = "indexing",
                              !.calls = <<IndexCall(job.user_doc, job.gpt, job.agg)>>]]
    /\ last' = Step("index_call", job.kind, job.gpt, 0, <<>>)
    /\ UNCHANGED <<env, sessions, lock, waiters, rags, returned>>

\* (mutation of IndexCatches: no try around the index update)
IndexCatchesNothing(exc) == FALSE

\* `except Exception as e` around each awaited index update.
IndexCatches(exc) == exc = "Exception"

\* The awaited index update returns or raises.  Every caller catches the
\* exception: the background tasks print it, /upload-chat-files answers
\* {"success": False}; without one /upload-chat-files answers success.
index_return(t) ==
    LET job == task[t] IN
    /\ job.pc = "indexing"
    /\ \E out \in EngineOutcomes :
          LET escapes == out = "raise" /\ ~IndexCatches("Exception")
              code == IF job.kind = "upload_chat_files" THEN 200 ELSE 0
          IN  last' = [Step("job_end", job.kind, job.gpt, code,
                            JobEnd(job, IF out = "raise" THEN "index_error"
                                        ELSE IF job.kind \in {"upload_chat_files",
                                                              "upload_documents"}
                                             THEN "success" ELSE "none"))
                       EXCEPT !.unhandled = escapes,
                              !.body = IF escapes THEN {}
                                       ELSE Body(job.kind, code, out = "ok")]
    /\ task' = [task EXCEPT ![t] = Idle]
    /\ UNCHANGED <<env, sessions, lock, waiters, rags, returned>>

\* POST /setup-gpt-context
setup_gpt_context_endpoint(t, in) ==
    /\ task[t].pc = "idle"
    /\ \E g \in in.gpts, given \in in.givens, urls \in in.lists :
          AtLock(t, Rq("setup", g, given, urls, FALSE, <<>>, <<>>))

\* POST /gpt-opened
gpt_opened_endpoint(t, in) ==
    /\ task[t].pc = "idle"
    /\ \E g \in in.gpts, given \in in.givens, urls \in in.lists :
          AtLock(t, Rq("gpt_opened", g, given, urls, FALSE, <<>>, <<>>))

\* An upload request arrives and awaits the storage of its first file.
StartUpload(t, kind, in) ==
    /\ task[t].pc = "idle"
    /\ \E g \in in.gpts, files \in in.lists, ud \in BOOLEAN :
          /\ task' = [task EXCEPT ![t] =
                        Job("uploading",
                            Rq(kind, g, NoOverrides, files, ud, <<>>, <<>>),
                            0, 1, <<>>, <<>>, 0, <<>>)]
          /\ last' = Step("request", kind, g, 0, <<>>)
    /\ UNCHANGED <<env, sessions, lock, waiters, rags, returned>>

\* POST /upload-documents
upload_documents_endpoint(t, in) == StartUpload(t, "upload_documents", in)

\* POST /upload-chat-files
upload_chat_files_endpoint(t, in) == StartUpload(t, "upload_chat_files", in)

\* ------------------------------------------------------------ /chat-stream
\* The engine's query_stream, as the design describes it: a finite sequence
\* of fragments of which the last one signals completion, after which the
\* iterator is exhausted; it can raise instead of yielding any fragment up to
\* and including the completing one.  frames are the frames sent so far.
EngineReplies(frames) ==
    IF frames # <<>> /\ frames[Len(frames)].type = "final"
    THEN {"stop"}
    ELSE {"final", "raise"} \cup
         (IF Len(frames) < MaxFrags THEN {"fragment"} ELSE {})

\* (mutation of Catches: a bare `except:`, which catches cancellation too)
CatchesAll(exc) == TRUE

\* (mutation of Catches: no handler around the loop)
CatchesNothing(exc) == FALSE

\* `except Exception as e` of generate(): the exceptions it catches.  A task
\* cancellation (CancelledError) and the closing of the generator
\* (GeneratorExit) derive from BaseException only.
Catches(exc) == exc = "Exception"

\* The frame generate() yields for an exception it has caught.
ErrorFrame(n) == [type |-> "error", n |-> n]

\* (mutation of QueryDefaults: the engine reads the object's defaults anew
\* for every fragment)
QueryDefaultsLive(st, R) == Defaults(R[st.rag])

\* The defaults the engine's streaming query works with when it produces a
\* fragment, as the design describes them: those it read from the object
\* once, when the query was invoked.
QueryDefaults(st, R) == st.used

\* The fragment the engine yields to the n-th request of generate(): its
\* type, its position and the defaults it was produced with.
Chunk(st, R, type) ==
    [type |-> type, n |-> st.asked, with |-> QueryDefaults(st, R)]

\* f"data: {json.dumps(chunk)}\n\n": the frame that carries one chunk.
DataFrame(chunk) == [type |-> chunk.type, n |-> chunk.n, with |-> chunk.with]

\* (mutation of Yield: the frame is sent twice)
YieldTwice(frames, chunk) == frames \o <<DataFrame(chunk), DataFrame(chunk)>>

\* The body of generate()'s loop: one yield, of one frame, for the chunk
\* the engine has just produced.
Yield(frames, chunk) == Append(frames, DataFrame(chunk))

\* How a stream went, when it is over: the frames generate() yielded, the
\* fragments it asked the engine for, whether the consumer went away, and
\* the frames and requests there were at that moment.
StreamEnd(st, frames, cancelled) ==
    <<[gpt |-> st.gpt, rag |-> st.rag, frames |-> frames, asked |-> st.asked,
       chunks |-> st.chunks, cancelled |-> cancelled,
       before |-> [frames |-> st.frames, asked |-> st.asked]]>>

\* The server takes the next frame from generate(): the generator runs on,
\* either out of its except block to its end (after the error frame) or
\* into the next `async for` step, where it awaits the engine.  The first
\* such step is the one that invokes query_stream: the body of an async
\* generator does not run before its first item is asked for, which the
\* server does after the handler has returned the StreamingResponse and the
\* response's start has been sent.
generate_next(t) ==
    LET st == task[t] IN
    /\ st.pc \in {"stream_start", "stream_yield"}
    /\ IF st.frames # <<>> /\ st.frames[Len(st.frames)].type = "error"
       THEN /\ task' = [task EXCEPT ![t] = Idle]
            /\ last' = [Step("stream_end", st.kind, st.gpt, 0, <<>>)
                        EXCEPT !.stream = StreamEnd(st, st.frames, FALSE)]
       ELSE /\ task' = [task EXCEPT ![t] =
                          [st EXCEPT !.pc = "stream_wait", !.asked = @ + 1,
                                     !.used = IF st.pc = "stream_start"
                                              THEN Defaults(rags[st.rag])
                                              ELSE @]]
            /\ last' = Step("stream_ask", st.kind, st.gpt, 0, <<>>)
    /\ UNCHANGED <<env, sessions, lock, waiters, rags, returned>>

\* The engine answers the pending request of generate(): a fragment, which
\* generate() yields as one frame; the end of the iteration, which ends
\* generate(); or an exception, for which generate() yields the error frame.
generate_chunk(t) ==
    LET st == task[t] IN
    /\ st.pc = "stream_wait"
    /\ \E r \in EngineReplies(st.frames) :
        CASE r \in {"fragment", "final"} ->
               /\ task' = [task EXCEPT ![t] =
                             [st EXCEPT !.pc = "stream_yield",
                                        !.chunks = Append(@, Chunk(st, rags, r)),
                                        !.frames = Yield(@, Chunk(st, rags, r))]]
               /\ last' = Step("stream_frame", st.kind, st.gpt, 0, <<>>)
          [] r = "stop" ->
               /\ task' = [task EXCEPT ![t] = Idle]
               /\ last' = [Step("stream_end", st.kind, st.gpt, 0, <<>>)
                           EXCEPT !.stream = StreamEnd(st, st.frames, FALSE)]
          [] r = "raise" ->
               IF Catches("Exception")
               THEN /\ task' = [task EXCEPT ![t] =
                                  [st EXCEPT !.pc = "stream_yield",
                                             !.frames = Append(@, ErrorFrame(st.asked))]]
                    /\ last' = Step("stream_frame", st.kind, st.gpt, 0, <<>>)
               ELSE /\ task' = [task EXCEPT ![t] = Idle]
                    /\ last' = [Step("stream_end", st.kind, st.gpt, 0, <<>>)
                                EXCEPT !.stream = StreamEnd(st, st.frames, FALSE)]
    /\ UNCHANGED <<env, sessions, lock, waiters, rags, returned>>

\* The consumer disconnects: the server cancels the response task.  A
\* generate() that awaits the engine gets CancelledError at that await; one
\* suspended at a yield is closed (GeneratorExit at the yield); one not yet
\* started is dropped.  Whatever generate() does not catch ends it.
consumer_disconnect(t) ==
    LET st == task[t]
        exc == IF st.pc = "stream_wait" THEN "CancelledError" ELSE "GeneratorExit"
        frames == IF st.pc # "stream_start" /\ Catches(exc)
                  THEN Append(st.frames, ErrorFrame(st.asked))
                  ELSE st.frames
    IN
    /\ st.pc \in {"stream_start", "stream_wait", "stream_yield"}
    /\ task' = [task EXCEPT ![t] = Idle]
    /\ last' = [Step("disconnect", st.kind, st.gpt, 0, <<>>)
                EXCEPT !.stream = StreamEnd(st, frames, TRUE)]
    /\ UNCHANGED <<env, sessions, lock, waiters, rags, returned>>

\* POST /chat-stream
chat_stream(t, in) ==
    /\ task[t].pc = "idle"
    /\ \E g \in in.gpts, given \in in.givens :
          AtLock(t, Rq("chat_stream", g, given, <<>>, FALSE, <<>>, <<>>))

\* ------------------------------------------------------------------- /chat
\* POST /chat
chat_endpoint(t, in) ==
    /\ task[t].pc = "idle"
    /\ \E g \in in.gpts, given \in in.givens :
          AtLock(t, Rq("chat", g, given, <<>>, FALSE, <<>>, <<>>))

\* The awaited rag.query returns (200) or raises (500, from the except).
query_return(t) ==
    /\ task[t].pc = "query"
    /\ \E out \in EngineOutcomes :
          last' = [Step("query_end", "chat", task[t].gpt,
                        IF out = "ok" THEN 200 ELSE 500, <<>>)
                   EXCEPT !.body = Body("chat", IF out = "ok" THEN 200 ELSE 500,
                                        out = "ok")]
    /\ task' = [task EXCEPT ![t] = Idle]
    /\ UNCHANGED <<env, sessions, lock, waiters, rags, returned>>

\* ----------------------------------------------------------- specification
Envs == [openai : BOOLEAN, qdrant : BOOLEAN, dev : BOOLEAN]

Init ==
    /\ env \in Envs
    /\ sessions = [g \in Gpts |-> 0]
    /\ lock = 0
    /\ waiters = <<>>
    /\ rags = <<>>
    /\ task = [t \in Tasks |-> Idle]
    /\ returned = [g \in Gpts |-> {}]
    /\ last = Step("init", "", "", 0, <<>>)

\* The requests a specification offers: the tenants they name, the overrides
\* they carry and their URL or file lists.
In(gpts, givens, lists) == [gpts |-> gpts, givens |-> givens, lists |-> lists]

\* The registry under concurrent requests: /setup-gpt-context without URLs
\* and the development reset, from any task at any time.
Next ==
    \E t \in Tasks :
        \/ setup_gpt_context_endpoint(t, In(Gpts, {NoOverrides, ModelOnly}, {<<>>}))
        \/ dev_reset_gpt_context_endpoint(t, In(Gpts, {}, {}))
        \/ acquire(t)
        \/ reset_teardown(t)

Spec == Init /\ [][Next]_vars

\* One ingestion request at a time, through each of the four endpoints that
\* start one.
NextIngest ==
    \/ setup_gpt_context_endpoint(1, In(Gpts, {NoOverrides}, UrlLists))
    \/ gpt_opened_endpoint(1, In(Gpts, {NoOverrides}, UrlLists))
    \/ upload_documents_endpoint(1, In(Gpts, {}, FileLists))
    \/ upload_chat_files_endpoint(1, In(Gpts, {}, FileLists))
    \/ process_kb_urls_task(1)
    \/ process_uploaded_file_to_r2(1)
    \/ index_documents_task(1)
    \/ index_return(1)

SpecIngest == Init /\ [][NextIngest]_vars

\* One /chat-stream request at a time, with its consumer.
NextStream ==
    \/ chat_stream(1, In(Gpts, {NoOverrides}, {}))
    \/ generate_next(1)
    \/ generate_chunk(1)
    \/ consumer_disconnect(1)

SpecStream == Init /\ [][NextStream]_vars

\* The defaults of one session under a sequence of requests, one at a time:
\* every combination of overrides through /setup-gpt-context, and the two
\* upload endpoints, which pass none.
NextMerge ==
    \/ setup_gpt_context_endpoint(1, In({"g1"}, GivenSet, {<<>>}))
    \/ upload_documents_endpoint(1, In({"g1"}, {}, FileLists))
    \/ upload_chat_files_endpoint(1, In({"g1"}, {}, FileLists))
    \/ process_uploaded_file_to_r2(1)
    \/ index_documents_task(1)
    \/ index_return(1)

SpecMerge == Init /\ [][NextMerge]_vars

\* One /chat-stream request on task 1 while the other tasks send
\* /setup-gpt-context requests for the same tenant, with or without a model
\* override.
NextSnapshot ==
    \/ chat_stream(1, In({"g1"}, {NoOverrides, ModelOnly}, {}))
    \/ generate_next(1)
    \/ generate_chunk(1)
    \/ consumer_disconnect(1)
    \/ \E t \in Tasks \ {1} :
          setup_gpt_context_endpoint(t, In({"g1"}, {NoOverrides, ModelOnly}, {<<>>}))

SpecSnapshot == Init /\ [][NextSnapshot]_vars

\* The life of the sessions: task 1 sends a request of any kind, one at a
\* time, and runs its background job, query or stream, while task 2 sends
\* development resets.
NextLife ==
    \/ setup_gpt_context_endpoint(1, In(Gpts, {NoOverrides, ModelOnly}, {<<>>, <<"https://">>}))
    \/ gpt_opened_endpoint(1, In(Gpts, {NoOverrides}, {<<"https://">>}))
    \/ upload_documents_endpoint(1, In(Gpts, {}, {<<"file">>}))
    \/ upload_chat_files_endpoint(1, In(Gpts, {}, {<<"file">>}))
    \/ chat_endpoint(1, In(Gpts, {NoOverrides}, {}))
    \/ chat_stream(1, In(Gpts, {NoOverrides}, {}))
    \/ process_kb_urls_task(1)
    \/ process_uploaded_file_to_r2(1)
    \/ index_documents_task(1)
    \/ index_return(1)
    \/ query_return(1)
    \/ generate_next(1)
    \/ generate_chunk(1)
    \/ consumer_disconnect(1)
    \/ acquire(1)
    \/ dev_reset_gpt_context_endpoint(2, In(Gpts, {}, {}))
    \/ reset_teardown(2)

SpecLife == Init /\ [][NextLife]_vars

\* The resolves that wait for the lock.
QueuedResolves == {t \in Tasks : task[t].pc = "lock" /\ task[t].rq.kind # "reset"}

\* The registry under concurrent requests and resets, with the
\* event loop's scheduling: a coroutine that can go on does go on (the
\* waiter the lock has woken, the reset whose teardown has returned or
\* raised).  A request is sent only while every resolve that is waiting can
\* still construct its object within the bound on objects.
NextFair ==
    \E t \in Tasks :
        \/ /\ Len(rags) + Cardinality(QueuedResolves) < MaxHandles
           /\ setup_gpt_context_endpoint(t, In(Gpts, {NoOverrides}, {<<>>}))
        \/ dev_reset_gpt_context_endpoint(t, In(Gpts, {}, {}))
        \/ acquire(t)
        \/ reset_teardown(t)

SpecFair ==
    /\ Init /\ [][NextFair]_vars
    /\ \A t \in Tasks : WF_vars(acquire(t)) /\ WF_vars(reset_teardown(t))

\* A request that sets the hybrid-search default alone.
HybridOnly == [model |-> Omitted, prompt |-> Omitted, hybrid |-> PyTrue]

\* The defaults of one session under /setup-gpt-context, /chat and
\* /chat-stream requests, one at a time, with and without overrides.
NextChat ==
    \/ setup_gpt_context_endpoint(1, In({"g1"}, {NoOverrides, HybridOnly}, {<<>>}))
    \/ chat_endpoint(1, In({"g1"}, {NoOverrides, ModelOnly}, {}))
    \/ chat_stream(1, In({"g1"}, {NoOverrides, ModelOnly}, {}))
    \/ query_return(1)
    \/ generate_next(1)
    \/ generate_chunk(1)
    \/ consumer_disconnect(1)

SpecChat == Init /\ [][NextChat]_vars

\* ==================================================================== claims
\* The handles constructed for gpt_id g, and those of them no reset has popped.
Built(g) == {h \in DOMAIN rags : rags[h].gpt_id = g}
Live(g) == {h \in Built(g) : ~rags[h].removed}

\* C1: however the first resolves of a gpt_id interleave (with each other and
\* with resets), the objects constructed for it and not popped by a reset are
\* at most one, that one is the registry's entry, and once a resolve has
\* returned there is exactly one.
C1_OneHandlePerGpt ==
    \A g \in Gpts :
        /\ Cardinality(Live(g)) <= 1
        /\ Live(g) = (IF sessions[g] # 0 THEN {sessions[g]} ELSE {})
        /\ returned[g] # {} => Cardinality(Live(g)) = 1

\* A later resolve of a gpt_id that no reset has touched found the entry and
\* constructed nothing: one object in all.
C1_Witness ==
    /\ last.op = "resolve" /\ ~last.created /\ last.ret # 0
    /\ Cardinality(Built(last.gpt)) = 1

\* C10: the resolves of one gpt_id between two resets of it all return the
\* same handle, whatever overrides they carry.
C10_SameHandle ==
    \A g \in Gpts : Cardinality(returned[g]) <= 1

\* A resolve carrying an override returned the handle an earlier resolve had
\* returned.
C10_Witness ==
    /\ last.op = "resolve" /\ ~last.created /\ last.given = ModelOnly
    /\ returned[last.gpt] = {last.ret}

\* C8: a reset of a present key removes the entry and calls that object's
\* clear_all_context exactly once (and no other object's), and every resolve
\* afterwards returns an object constructed after the removal, never a
\* removed one.
C8_ResetRemovesAndClears ==
    /\ \A h \in DOMAIN rags :
          /\ rags[h].cleared = (IF rags[h].removed THEN 1 ELSE 0)
          /\ rags[h].removed =>
                \A g \in Gpts : sessions[g] # h /\ h \notin returned[g]
    /\ last.op = "reset_pop" =>
          sessions[last.gpt] = 0 /\ rags[last.ret].removed
    /\ (last.op = "resolve" /\ last.ret # 0) =>
          \A h \in Built(last.gpt) : rags[h].removed => h < last.ret

\* A resolve constructed a new object for a key whose earlier object a reset
\* had removed.
C8_Witness ==
    /\ last.op = "resolve" /\ last.created
    /\ \E h \in Built(last.gpt) : rags[h].removed

\* C9: a reset (in development mode) of a key with no entry answers 404 and
\* changes neither the registry nor any object: no defaults, no teardown.
C9_ResetAbsentNoEffect ==
    [][(/\ last'.kind = "reset"
        /\ last'.op \in {"reset_pop", "reset_end"}
        /\ env.dev
        /\ \A t \in Tasks : task[t].pc # "teardown"
        /\ sessions[last'.gpt] = 0)
       => (/\ last'.op = "reset_end" /\ last'.code = 404
           /\ sessions' = sessions
           /\ rags' = rags)]_vars

\* A reset answered 404 while another key had its session.
C9_Witness ==
    /\ last.op = "reset_end" /\ last.code = 404
    /\ \E g \in Gpts : sessions[g] # 0 /\ rags[sessions[g]].model = "m1"

\* C2: a resolve of an existing session changes no default that has a value
\* and whose override the request leaves out (or gives as null): with one
\* field overridden the other two keep their values, and an existing True of
\* the hybrid-search default in particular stays.
C2_AbsentOverrideKeeps ==
    [][(last'.op = "resolve" /\ last'.ret # 0 /\ ~last'.created)
       => \A f \in {"model", "prompt", "hybrid"} :
             (last'.given[f] \in {Omitted, None} /\ rags[last'.ret][f] # None)
                => rags'[last'.ret][f] = rags[last'.ret][f]]_vars

\* ------------------------------------------------------------------ streams
\* The frames of a stream that signal its end.
ErrorFrames(frames) == {i \in DOMAIN frames : frames[i].type = "error"}
FinalFrames(frames) == {i \in DOMAIN frames : frames[i].type = "final"}
\* Normal completion: the last frame is the engine's completing fragment.
Completed(frames) ==
    FinalFrames(frames) = {Len(frames)} /\ frames # <<>>
    /\ ErrorFrames(frames) = {}
\* The error condition: one error frame, the last frame.
Errored(frames) ==
    ErrorFrames(frames) = {Len(frames)} /\ frames # <<>>
    /\ FinalFrames(frames) = {}
NoTerminal(frames) == ErrorFrames(frames) = {} /\ FinalFrames(frames) = {}
\* The stream was started: generate() ran and asked the engine for a fragment.
Started(s) == s.asked >= 1

\* C3 as stated: every started stream that is over has ended in exactly one
\* of completion and error, a cancelled one too.
C3_ExactlyOneTerminal ==
    \A i \in DOMAIN last.stream :
        Started(last.stream[i]) =>
            Completed(last.stream[i].frames) \/ Errored(last.stream[i].frames)

\* C3 as amended: a started stream its consumer did not cancel has ended in
\* exactly one of completion and error; a cancelled one in at most one, and
\* in neither when no terminal frame had been sent before the cancellation.
C3_OneTerminalUnlessCancelled ==
    \A i \in DOMAIN last.stream :
        LET s == last.stream[i] IN
        Started(s) =>
        /\ ~s.cancelled => Completed(s.frames) \/ Errored(s.frames)
        /\ s.cancelled =>
              \/ Completed(s.frames) \/ Errored(s.frames)
              \/ NoTerminal(s.frames)
        /\ (s.cancelled /\ NoTerminal(s.before.frames)) => NoTerminal(s.frames)

\* A stream ended with the error frame after the engine had yielded a
\* fragment and then raised.
C3_Witness ==
    \E i \in DOMAIN last.stream :
        /\ ~last.stream[i].cancelled
        /\ Errored(last.stream[i].frames)
        /\ Len(last.stream[i].frames) >= 2

\* C4: when the consumer disconnects, generate() asks the engine for nothing
\* more and yields no further frame, no error frame either.
C4_NothingAfterDisconnect ==
    \A i \in DOMAIN last.stream :
        last.stream[i].cancelled =>
            /\ last.stream[i].frames = last.stream[i].before.frames
            /\ last.stream[i].asked = last.stream[i].before.asked

\* The consumer went away while generate() awaited the engine's second
\* fragment.
C4_Witness ==
    \E i \in DOMAIN last.stream :
        /\ last.stream[i].cancelled
        /\ Len(last.stream[i].frames) = 1
        /\ last.stream[i].asked = 2

\* ---------------------------------------------------------------- ingestion
\* The stored locations (item numbers) a URL job should have collected: those
\* of the http(s) URLs whose download succeeded, in input order.
RECURSIVE StoredFrom(_, _, _)
StoredFrom(items, outs, i) ==
    IF i > Len(items) THEN <<>>
    ELSE (IF HasHttpScheme(items[i]) /\ i <= Len(outs) /\ outs[i] = "ok"
          THEN <<i>> ELSE <<>>) \o StoredFrom(items, outs, i + 1)

\* C5: a URL job that is over has collected exactly the locations of the
\* http(s) URLs that were fetched, in input order, has written down every
\* other URL as a failure, and has called the index update once with that
\* list when it is not empty.
C5_UrlJobAggregate ==
    \A i \in DOMAIN last.end :
        LET e == last.end[i] IN
        e.kind \in UrlKinds =>
            /\ e.agg = StoredFrom(e.items, e.outs, 1)
            /\ Len(e.agg) + e.fails = Len(e.items)
            /\ e.agg # <<>> => e.calls = <<IndexCall(FALSE, e.gpt, e.agg)>>

\* C6: a job that is over has attempted every item of its batch, whatever
\* happened to the items before, and has handed the stored ones to the index
\* update.
C6_NoItemAbortsBatch ==
    \A i \in DOMAIN last.end :
        LET e == last.end[i] IN
        /\ Len(e.outs) = Len(e.items)
        /\ e.agg # <<>> => (Len(e.calls) = 1 /\ e.calls[1].locs = e.agg)

\* C7: a job that stored nothing has reported a hard failure and has called
\* no index update.
C7_EmptyIsHardFailure ==
    \A i \in DOMAIN last.end :
        last.end[i].agg = <<>> =>
            last.end[i].report = "hard_failure" /\ last.end[i].calls = <<>>

\* ------------------------------------------------------- stream defaults
\* The streams in progress, and the frames of a stream that carry a fragment.
Streaming == {t \in Tasks : task[t].pc \in {"stream_start", "stream_wait", "stream_yield"}}
DataFrames(frames) == {i \in DOMAIN frames : frames[i].type # "error"}

Indexing == {t \in Tasks : task[t].pc = "indexing"}

\* C12 as stated: whichever endpoint started the job, its request has been
\* answered when the engine's index update is invoked.
C12_IndexAfterAck ==
    \A t \in Indexing : task[t].calls # <<>> /\ task[t].acked

\* C12 as amended: the index update of a job started by /setup-gpt-context,
\* /upload-documents or /gpt-opened is invoked after the request has been
\* answered; /upload-chat-files invokes it in the handler, before it answers.
C12_IndexAfterAckWhenDetached ==
    \A t \in Indexing :
        /\ task[t].calls # <<>>
        /\ task[t].acked <=> task[t].kind # "upload_chat_files"

\* The index update of a /gpt-opened job is in progress, its request answered.
C12_Witness ==
    \E t \in Indexing : task[t].kind = "gpt_opened" /\ task[t].acked

\* The job summary of the step just taken says its index update raised.
IndexRaised(e) == e.end # <<>> /\ e.end[1].report = "index_error"

\* C13 as stated: an index update that raises ends the job normally, sends
\* nothing to any caller and changes neither the registry nor any defaults.
C13_IndexErrorContained ==
    [][IndexRaised(last') =>
          /\ ~last'.unhandled /\ last'.code = 0 /\ last'.body = {}
          /\ \A t \in Tasks : task[t].pc = "indexing" => task'[t] = Idle
          /\ sessions' = sessions /\ rags' = rags]_vars

\* C13 as amended: an index update that raises ends the job normally and
\* changes neither the registry nor any defaults; in a background job
\* nothing is sent to the caller, who was answered before, while
\* /upload-chat-files, which awaits the update before it answers, answers
\* with success False and the error's message.
C13_IndexErrorContainedInJob ==
    [][IndexRaised(last') =>
          /\ ~last'.unhandled
          /\ \A t \in Tasks : task[t].pc = "indexing" => task'[t] = Idle
          /\ sessions' = sessions /\ rags' = rags
          /\ IF last'.kind = "upload_chat_files"
             THEN last'.code = 200 /\ {"success=False", "message"} \subseteq last'.body
             ELSE last'.code = 0 /\ last'.body = {}]_vars

\* The index update of an /upload-documents job raised, for a tenant with a
\* session.
C13_Witness ==
    /\ IndexRaised(last) /\ last.kind = "upload_documents"
    /\ sessions[last.gpt] # 0

\* C14: a job with a non-empty location list, in progress at its index
\* update or over, has invoked exactly one index update, the one of its
\* scope: update_user_documents with the session id of its user and gpt_id
\* for user documents, update_knowledge_base otherwise, with that list.
C14_OneIndexCallByScope ==
    /\ \A t \in Indexing :
          task[t].calls = <<IndexCall(task[t].user_doc, task[t].gpt, task[t].agg)>>
    /\ \A i \in DOMAIN last.end :
          last.end[i].agg # <<>> =>
              /\ Len(last.end[i].calls) = 1
              /\ last.end[i].calls[1].op =
                    (IF last.end[i].user_doc THEN "update_user_documents"
                                             ELSE "update_knowledge_base")
              /\ last.end[i].calls[1].session =
                    (IF last.end[i].user_doc THEN SessionId(last.end[i].gpt)
                                             ELSE None)

\* ------------------------------------------------------- frames and chunks
\* The frames of a stream that carry a fragment, in order.
DataPart(frames) == SelectSeq(frames, LAMBDA f : f.type # "error")
\* The frames generate() should have yielded for the engine's chunks.
FramesOf(chunks) == [i \in 1..Len(chunks) |-> DataFrame(chunks[i])]
\* The chunks are the engine's first, second, ... fragment, in that order,
\* and an error frame comes after every data frame.
InOrder(frames, chunks) ==
    /\ \A i \in DOMAIN chunks : chunks[i].n = i
    /\ \A i \in DOMAIN frames :
          frames[i].type = "error" => i = Len(frames) /\ i = Len(chunks) + 1

\* C15: at every moment of a stream and at its end, the data frames sent are
\* the frames of the fragments the engine has produced, one for one and in
\* the engine's order.
C15_FramesFollowFragments ==
    /\ \A t \in Streaming :
          /\ DataPart(task[t].frames) = FramesOf(task[t].chunks)
          /\ InOrder(task[t].frames, task[t].chunks)
    /\ \A i \in DOMAIN last.stream :
          /\ DataPart(last.stream[i].frames) = FramesOf(last.stream[i].chunks)
          /\ InOrder(last.stream[i].frames, last.stream[i].chunks)

\* A stream ended after the engine had produced two fragments and raised.
C15_Witness ==
    \E i \in DOMAIN last.stream :
        /\ ~last.stream[i].cancelled
        /\ Len(last.stream[i].chunks) = 2
        /\ Len(last.stream[i].frames) = 3

\* ------------------------------------------------------- configuration
\* C16: a resolve of a key without entry raises the configuration error when
\* OPENAI_API_KEY or QDRANT_URL is missing, and only then; the raising call
\* stores no entry, constructs no object and leaves the lock free, so that
\* the requests after it are not held up.
C16_ConfigErrorLeavesRegistry ==
    [][(last'.op = "resolve" /\ sessions[last'.gpt] = 0) =>
          IF env.openai /\ env.qdrant
          THEN last'.raised = "" /\ last'.created
          ELSE /\ last'.raised =
                     (IF ~env.openai THEN "OPENAI_API_KEY not set"
                                     ELSE "QDRANT_URL not set")
               /\ last'.ret = 0 /\ ~last'.created
               /\ sessions' = sessions /\ sessions'[last'.gpt] = 0
               /\ rags' = rags
               /\ lock' = 0 /\ waiters' = <<>>]_vars

\* A resolve failed on the missing QDRANT_URL, the key being set, and the
\* lock is free.
C16_Witness ==
    /\ last.op = "resolve" /\ last.raised = "QDRANT_URL not set"
    /\ env.openai
    /\ sessions[last.gpt] = 0 /\ rags = <<>> /\ lock = 0

\* ------------------------------------------------------------- lifecycle
\* (C19) What a step may do to the entry of key g and to the defaults of the
\* object it names: nothing, unless the step is a resolve of g that raises
\* nothing (a first one stores a newly constructed object, a later one keeps
\* the entry) or the removal of a reset of g.
EntryStep(g) ==
    LET h == sessions[g]
        changed == \/ sessions'[g] # h
                   \/ h # 0 /\ Defaults(rags'[h]) # Defaults(rags[h])
    IN  changed =>
          /\ last'.gpt = g
          /\ \/ /\ last'.op = "resolve" /\ last'.raised = ""
                /\ IF h = 0
                   THEN /\ last'.created
                        /\ sessions'[g] = last'.ret
                        /\ last'.ret \notin DOMAIN rags
                   ELSE ~last'.created /\ sessions'[g] = h /\ last'.ret = h
             \/ /\ last'.op = "reset_pop" /\ h # 0 /\ sessions'[g] = 0

\* C19: every step leaves every entry alone except in the three lifecycle
\* transitions of its own key; the steps of jobs, queries and streams change
\* no entry and no defaults; no object loses or changes its defaults once it
\* is out of the registry.
C19_LifecycleOnly ==
    [][/\ \A g \in Gpts : EntryStep(g)
       /\ last'.op \notin {"resolve", "reset_pop"} =>
             /\ sessions' = sessions
             /\ \A h \in DOMAIN rags : Defaults(rags'[h]) = Defaults(rags[h])
       /\ \A h \in DOMAIN rags :
             Defaults(rags'[h]) # Defaults(rags[h]) => sessions[last'.gpt] = h]_vars

\* A reset removed the entry of one key while the other key had its session
\* and a job of task 1 was at its index update.
C19_Witness ==
    /\ last.op = "reset_pop"
    /\ \E g \in Gpts \ {last.gpt} :
          sessions[g] # 0 /\ rags[sessions[g]].model = "m1"
    /\ \E t \in Indexing : TRUE

\* ------------------------------------------------------- request errors
\* The step just taken ended a request in an error at request time: its
\* resolve raised the configuration error, or the awaited query of /chat
\* raised.
RequestError(e) ==
    \/ e.op = "resolve" /\ e.raised # ""
          /\ e.kind \in {"setup", "upload_documents", "chat", "chat_stream", "gpt_opened"}
    \/ e.op = "query_end" /\ e.code = 500
\* A response body with a success flag and a message.
Structured(body) ==
    /\ {"success=False", "success=True"} \cap body # {}
    /\ {"error", "message"} \cap body # {}

\* C17: every request-time error is answered with a structured failure
\* response, success flag False and a message; none leaves the handler.
C17_StructuredFailure ==
    RequestError(last) =>
        /\ ~last.unhandled
        /\ Structured(last.body) /\ "success=False" \in last.body

\* ------------------------------------------------------- the lock's extent
\* The positions at which a coroutine awaits an engine operation, a storage
\* call or the purge of the local index directory.
SlowPcs == {"indexing", "query", "stream_wait", "teardown", "uploading", "bg_urls"}

\* C18: the task that holds sessions_lock is never at such a position: the
\* lock is taken and released within one run of a resolve or a reset, around
\* the map operation and the assignment of the defaults only.
C18_LockCoversMapOnly ==
    \A t \in Tasks : lock = t => task[t].pc \notin SlowPcs

\* ------------------------------------------------------- stale handles
\* The engine operations that are in progress: the task, and the object the
\* operation was invoked on.
EngineCalls ==
    {<<t, task[t].rag>> : t \in {u \in Tasks : task[u].pc \in {"indexing", "query", "stream_wait"}}}
\* The resets that have removed an entry and not yet answered.
Resetting == {task[t].rag : t \in {u \in Tasks : task[u].pc = "teardown"}}

\* C20: a step that invokes an index update, a query or the next fragment of
\* a stream never does so on an object that a completed reset has removed.
C20_NoCallOnResetHandle ==
    last.op \in {"index_call", "stream_ask", "resolve"} =>
        \A c \in EngineCalls :
            rags[c[2]].removed => c[2] \in Resetting

\* ------------------------------------------------------------- progress
\* The lock is held by a reset in its teardown or by nobody, and nobody who
\* waits for it holds it; the queue holds exactly the waiting tasks.
LockDiscipline ==
    /\ lock # 0 => lock \in Tasks /\ task[lock].pc = "teardown"
    /\ \A t \in Tasks :
          /\ task[t].pc = "teardown" => lock = t
          /\ task[t].pc = "lock" =>
                lock # t /\ Cardinality({i \in DOMAIN waiters : waiters[i] = t}) = 1
    /\ \A i \in DOMAIN waiters : task[waiters[i]].pc = "lock"

\* C21: under the event loop's scheduling, with every teardown returning or
\* raising, the lock discipline holds throughout, a held lock is released, and
\* every request that waits for the lock or is in its teardown completes;
\* with nothing in progress the lock is free.
C21_LockAlwaysReleased ==
    /\ [](LockDiscipline)
    /\ [](((\A t \in Tasks : task[t].pc = "idle") => lock = 0 /\ waiters = <<>>))
    /\ (lock # 0) ~> (lock = 0)
    /\ \A t \in Tasks : (task[t].pc \in {"lock", "teardown"}) ~> (task[t].pc = "idle")

\* A teardown raised, the reset answered 500 and released the lock, and a
\* request that had waited for it is about to go on.
C21_Witness ==
    /\ last.op = "reset_end" /\ last.code = 500
    /\ lock = 0 /\ waiters # <<>>

\* ------------------------------------------------------- chat overrides
\* C22: the resolve of a /chat or /chat-stream request that finds its
\* tenant's session leaves the three stored defaults of that session as they
\* were, whatever overrides the request carries.
C22_ChatKeepsDefaults ==
    [][(/\ last'.op = "resolve"
        /\ last'.kind \in {"chat", "chat_stream"}
        /\ last'.ret # 0 /\ ~last'.created)
       => Defaults(rags'[last'.ret]) = Defaults(rags[last'.ret])]_vars
=============================================================================
